---- MODULE Spec2Model ----
(***************************************************************************)
(* A model of the character-level GPT notebook (src/notebook.ipynb):       *)
(* SingleHeadAttention, MultiHeadedSelfAttention, VanillaNeuralNetwork,    *)
(* TransformerBlock, GPT, generate and TweetDataset.                       *)
(*                                                                         *)
(* Tensors are modelled by their shape and, per batch row and position,    *)
(* by the set of input (position, token) pairs the value at that place is  *)
(* computed from.  Floating-point values are not modelled; the attention   *)
(* weights are modelled as exact fractions (numerator, denominator) over   *)
(* integer scores.  Positions are 1-based in sequences; the Python index   *)
(* of element t of a sequence is t - 1.                                    *)
(***************************************************************************)
EXTENDS Integers, Sequences, FiniteSets, TLC

VARIABLES
    \* ---- generate(model, new_chars, context, context_length, int_to_char)
    gpc,             \* "idle" | "loop" | "done" | "error"
    start,           \* the context argument as the caller passed it (B rows)
    context,         \* the local variable context (B rows of indices)
    context_length,  \* the global / argument context_length
    new_chars,       \* the argument new_chars
    i,               \* number of completed iterations of the for loop
    res,             \* the list res
    drawn,           \* the values of next_char, one (B-vector) per draw
    passed,          \* the contexts handed to model(...), one per invocation
    result,          \* the returned string, as its sequence of characters
    \* ---- GPT construction and GPT.forward
    mpc,             \* "idle" | "new" | "constructed" | "embedded" | "done" | "error"
    cfg,             \* the constructor arguments
    ctx,             \* the argument of forward (B rows of indices)
    x,               \* the tensor flowing through forward
    blk,             \* number of transformer blocks already applied
    \* ---- SingleHeadAttention.forward, the attention weights
    apc,             \* "idle" | "call" | "done"
    raw,             \* Q @ K^T / A ** 0.5 for one batch row (T x T integers)
    mask,            \* the local variable mask
    weights,         \* scores after masked_fill and softmax
    \* ---- TweetDataset
    dpc,             \* "idle" | "text" | "ready"
    text,            \* the constructor argument
    data,            \* self.data
    item             \* the last pair returned by __getitem__

gvars == <<gpc, start, context, new_chars, i, res, drawn, passed, result>>
fvars == <<mpc, cfg, ctx, x, blk>>
avars == <<apc, raw, mask, weights>>
dvars == <<dpc, text, data, item>>
vars == <<gvars, fvars, avars, dvars, context_length>>

(***************************************************************************)
(* Bounds of the model.                                                    *)
(***************************************************************************)
VocabSize == 2
MaxT0 == 2
MaxCL == 2
MaxNew == 3
MaxT == 3
MaxDim == 3
MaxHeads == 2
MaxBlocks == 1
MaxText == 5

BatchSizes == {1, 2}
Tokens == {0, 1}
ScoreVals == {0, 1}

(***************************************************************************)
(* Python and torch helpers.                                               *)
(***************************************************************************)
Min(a, b) == IF a < b THEN a ELSE b
Max(a, b) == IF a > b THEN a ELSE b

\* s[a:b] for 0 <= a, 0 <= b: Python clamps both ends to len(s).
Slice(s, a, b) ==
    LET lo == Min(a, Len(s))
        hi == Min(b, Len(s))
    IN  IF hi <= lo THEN <<>> ELSE SubSeq(s, lo + 1, hi)

\* s[-n:] for n >= 0: -0 is 0 (the whole sequence); a start before the
\* beginning is clamped to the beginning.
SliceLast(s, n) ==
    IF n = 0 THEN s ELSE SubSeq(s, Max(Len(s) - n, 0) + 1, Len(s))

RECURSIVE SumSeq(_)
SumSeq(s) == IF Len(s) = 0 THEN 0 ELSE s[1] + SumSeq(Tail(s))

\* the union of a sequence of sets
RECURSIVE UnionSeq(_)
UnionSeq(s) == IF Len(s) = 0 THEN {} ELSE s[1] \cup UnionSeq(Tail(s))

\* Body applied to the value of e, with e evaluated exactly once (an
\* assignment to a local variable).
Let(e, Body(_)) == CHOOSE out \in {Body(v) : v \in {e}} : TRUE

(***************************************************************************)
(* Tensors.  A tensor is a record: err is "none" or the exception raised   *)
(* while computing it; shape is its shape; val gives, per batch row and    *)
(* position, the set of input pairs <<position, token>> the features at    *)
(* that place are computed from (per position alone for a rank-2 tensor).  *)
(***************************************************************************)
Failed(kind) == [err |-> kind, shape |-> <<>>, val |-> <<>>]
Tensor(shape, val) == [err |-> "none", shape |-> shape, val |-> val]
IsErr(t) == t.err # "none"
LastDim(t) == t.shape[Len(t.shape)]

\* float("-inf") and a finite score with payload p
NegInf == <<>>
Finite(p) == <<p>>
IsNegInf(s) == Len(s) = 0

\* nn.Linear(in_features, out_features) applied to t: a map on the last
\* axis, position by position; a wrong last dimension is a RuntimeError.
Linear(t, in_features, out_features) ==
    IF IsErr(t) THEN t
    ELSE IF LastDim(t) # in_features THEN Failed("RuntimeError")
    ELSE Tensor([t.shape EXCEPT ![Len(t.shape)] = out_features], t.val)

\* nn.LayerNorm(normalized_shape) applied to t: normalises the last axis.
LayerNorm(t, normalized_shape) ==
    IF IsErr(t) THEN t
    ELSE IF LastDim(t) # normalized_shape THEN Failed("RuntimeError")
    ELSE t

\* nn.ReLU and nn.Dropout(0.2): elementwise, shape preserving.
ReLU(t) == t
Dropout(t) == t

\* a + b for two tensors of the same rank
Add(a, b) ==
    IF IsErr(a) THEN a
    ELSE IF IsErr(b) THEN b
    ELSE IF a.shape # b.shape THEN Failed("RuntimeError")
    ELSE Tensor(a.shape,
                [r \in 1..a.shape[1] |-> [t \in 1..a.shape[2] |->
                    a.val[r][t] \cup b.val[r][t]]])

\* a + p where a is (B, T, D) and p is (T, D), broadcast over the batch
AddBroadcast(a, p) ==
    IF IsErr(a) THEN a
    ELSE IF IsErr(p) THEN p
    ELSE IF <<a.shape[2], a.shape[3]>> # p.shape THEN Failed("RuntimeError")
    ELSE Tensor(a.shape,
                [r \in 1..a.shape[1] |-> [t \in 1..a.shape[2] |->
                    a.val[r][t] \cup p.val[t]]])

\* the mask without tril, torch.ones(T, T)
Tril_AllOnes(T) == [q \in 1..T |-> [k \in 1..T |-> 1]]

\* the mask without its diagonal, torch.tril(torch.ones(T, T), diagonal=-1)
Tril_Strict(T) == [q \in 1..T |-> [k \in 1..T |-> IF k < q THEN 1 ELSE 0]]

\* torch.tril(torch.ones(T, T)): ones on and below the diagonal
Tril(T) == [q \in 1..T |-> [k \in 1..T |-> IF k <= q THEN 1 ELSE 0]]

\* scores.masked_fill(mask == 0, float("-inf")) for one batch row
MaskedFill(scores, m) ==
    [q \in 1..Len(scores) |-> [k \in 1..Len(scores[q]) |->
        IF m[q][k] = 0 THEN NegInf ELSE scores[q][k]]]

\* softmax over one row of scores whose finite payloads are dependency
\* sets: a -inf score gets weight zero (<<>>), every other weight is
\* computed from all the finite scores of the row.
SoftmaxDeps(row) ==
    LET all == UNION {row[k][1] : k \in {n \in 1..Len(row) : ~IsNegInf(row[n])}}
    IN  [k \in 1..Len(row) |-> IF IsNegInf(row[k]) THEN <<>> ELSE <<all>>]

\* SingleHeadAttention(model_dim, head_size).forward(embedded)
SingleHeadAttention(embedded, model_dim, head_size) ==
    Let(Linear(embedded, model_dim, head_size), LAMBDA K :
    Let(Linear(embedded, model_dim, head_size), LAMBDA Q :
    Let(Linear(embedded, model_dim, head_size), LAMBDA V :
        IF IsErr(K) THEN K
        ELSE
        LET B == K.shape[1]
            T == K.shape[2]
            A == K.shape[3]
        IN
        Let([r \in 1..B |-> [q \in 1..T |-> [k \in 1..T |->
                Finite(Q.val[r][q] \cup K.val[r][k])]]], LAMBDA scores :
        Let(Tril(T), LAMBDA m :
        Let([r \in 1..B |-> MaskedFill(scores[r], m)], LAMBDA filled :
        Let([r \in 1..B |-> [q \in 1..T |-> SoftmaxDeps(filled[r][q])]], LAMBDA soft :
            Tensor(<<B, T, A>>,
                   [r \in 1..B |-> [q \in 1..T |->
                       UNION {soft[r][q][k][1] \cup V.val[r][k] :
                              k \in {n \in 1..T : Len(soft[r][q][n]) # 0}}]]))))))))

\* model_dim // num_heads
HeadSize(model_dim, num_heads) == model_dim \div num_heads

\* the heads joined along the time axis, torch.cat(ts, dim=1)
Cat_TimeAxis(ts) ==
    IF \E h \in 1..Len(ts) : IsErr(ts[h])
    THEN ts[CHOOSE h \in 1..Len(ts) : IsErr(ts[h])]
    ELSE LET B == ts[1].shape[1]
             T == ts[1].shape[2]
         IN  Tensor(<<B, T * Len(ts), ts[1].shape[3]>>,
                    [r \in 1..B |-> [t \in 1..(T * Len(ts)) |->
                        ts[((t - 1) \div T) + 1].val[r][((t - 1) % T) + 1]]])

\* torch.cat(ts, dim=-1) of a non-empty sequence of (B, T, *) tensors
Cat(ts) ==
    IF \E h \in 1..Len(ts) : IsErr(ts[h])
    THEN ts[CHOOSE h \in 1..Len(ts) : IsErr(ts[h])]
    ELSE LET B == ts[1].shape[1]
             T == ts[1].shape[2]
         IN  Tensor(<<B, T, SumSeq([h \in 1..Len(ts) |-> ts[h].shape[3]])>>,
                    [r \in 1..B |-> [t \in 1..T |->
                        UnionSeq([h \in 1..Len(ts) |-> ts[h].val[r][t]])]])

\* MultiHeadedSelfAttention(model_dim, num_heads).forward(embedded)
MultiHeadedSelfAttention(embedded, model_dim, num_heads) ==
    Let([h \in 1..num_heads |->
            SingleHeadAttention(embedded, model_dim,
                                HeadSize(model_dim, num_heads))], LAMBDA heads :
    Let(Cat(heads), LAMBDA joined :
    Let(Linear(joined, model_dim, model_dim), LAMBDA computed :
        Dropout(computed))))

\* VanillaNeuralNetwork(model_dim).forward(x)
VanillaNeuralNetwork(t, model_dim) ==
    Let(Linear(t, model_dim, model_dim * 4), LAMBDA first :
    Let(ReLU(first), LAMBDA rectified :
    Let(Linear(rectified, model_dim * 4, model_dim), LAMBDA second :
        Dropout(second))))

\* TransformerBlock(model_dim, num_heads).forward(embedded)
TransformerBlock(embedded, model_dim, num_heads) ==
    Let(LayerNorm(embedded, model_dim), LAMBDA normed_one :
    Let(MultiHeadedSelfAttention(normed_one, model_dim, num_heads), LAMBDA attended :
    Let(Add(embedded, attended), LAMBDA one :
    Let(LayerNorm(one, model_dim), LAMBDA normed_two :
    Let(VanillaNeuralNetwork(normed_two, model_dim), LAMBDA fed :
        Add(one, fed))))))

\* nn.Embedding(num_embeddings, embedding_dim) indexed by a (B, T) tensor
\* of token indices: an index outside [0, num_embeddings) is an IndexError.
TokenEmbedding(num_embeddings, embedding_dim, indices) ==
    LET B == Len(indices)
        T == Len(indices[1])
    IN  IF \E r \in 1..B : \E t \in 1..T :
               indices[r][t] < 0 \/ indices[r][t] >= num_embeddings
        THEN Failed("IndexError")
        ELSE Tensor(<<B, T, embedding_dim>>,
                    [r \in 1..B |-> [t \in 1..T |-> {<<t - 1, indices[r][t]>>}]])

\* a position table that serves any T, the positions past the table clamped
PosEmbedding_Clamped(num_embeddings, embedding_dim, T) ==
    Tensor(<<T, embedding_dim>>, [t \in 1..T |-> {}])

\* nn.Embedding(num_embeddings, embedding_dim) indexed by torch.arange(T)
PosEmbedding(num_embeddings, embedding_dim, T) ==
    IF \E p \in 0..(T - 1) : p >= num_embeddings
    THEN Failed("IndexError")
    ELSE Tensor(<<T, embedding_dim>>, [t \in 1..T |-> {}])

\* GPT.forward up to "embedded = token_embeddings + pos_embedding"
GPTEmbed(model, indices) ==
    Let(Len(indices[1]), LAMBDA T :
    Let(TokenEmbedding(model.vocab_size, model.model_dim, indices),
        LAMBDA token_embeddings :
    Let(PosEmbedding(model.context_length, model.model_dim, T),
        LAMBDA pos_embedding :
        AddBroadcast(token_embeddings, pos_embedding))))

\* self.transformer_blocks applied to t: n blocks in sequence
RECURSIVE TransformerBlocks(_, _, _)
TransformerBlocks(model, t, n) ==
    IF n = 0 THEN t
    ELSE Let(TransformerBlocks(model, t, n - 1), LAMBDA below :
             TransformerBlock(below, model.model_dim, model.num_heads))

\* self.vocab_projection(self.layer_norm_three(output))
GPTProject(model, output) ==
    Let(LayerNorm(output, model.model_dim), LAMBDA normed :
        Linear(normed, model.model_dim, model.vocab_size))

\* GPT.forward(context)
GPTForward(model, indices) ==
    Let(GPTEmbed(model, indices), LAMBDA embedded :
    Let(TransformerBlocks(model, embedded, model.num_blocks), LAMBDA output :
        GPTProject(model, output)))

\* GPT(vocab_size, context_length, model_dim, num_blocks, num_heads)
GPT(vocab_size, c_length, model_dim, num_blocks, num_heads) ==
    [vocab_size |-> vocab_size, context_length |-> c_length,
     model_dim |-> model_dim, num_blocks |-> num_blocks, num_heads |-> num_heads,
     head_size |-> HeadSize(model_dim, num_heads)]

(***************************************************************************)
(* generate(model, new_chars, context, context_length, int_to_char)        *)
(***************************************************************************)
\* the first entries of the notebook's int_to_char
Alphabet == <<"\n", " ", "!", "\"", "#", "$", "%", "&">>
int_to_char == [n \in 0..(VocabSize - 1) |-> Alphabet[n + 1]]

\* the trained model of the notebook, scaled down: it is built with the
\* same context_length that is handed to generate
GenModel(c_length) == GPT(VocabSize, c_length, 2, 1, 1)

\* the window taken from the front, context[:, :context_length]
Truncate_FromFront(rows, c_length) ==
    [r \in 1..Len(rows) |-> Slice(rows[r], 0, c_length)]

\* context[:, -context_length:]
Truncate(rows, c_length) ==
    [r \in 1..Len(rows) |-> SliceLast(rows[r], c_length)]

\* prediction[:, -1, :]: the logits at the last time step, shape (B, V)
LastTimeStep(prediction) ==
    Tensor(<<prediction.shape[1], prediction.shape[3]>>,
           [r \in 1..prediction.shape[1] |-> prediction.val[r][prediction.shape[2]]])

\* torch.multinomial(probabilities, 1): the possible results, one index
\* per row, each a column of the (B, V) matrix of probabilities
Multinomial(probabilities) ==
    [1..probabilities.shape[1] -> 0..(probabilities.shape[2] - 1)]

\* torch.cat((context, next_char), dim=-1)
CatNext(rows, next_char) ==
    [r \in 1..Len(rows) |-> Append(rows[r], next_char[r])]

\* the loop counter used as the key, int_to_char[0] on every step
CharOf_FirstKey(next_char) == int_to_char[0]

\* int_to_char[next_char.item()], defined for a one-element next_char
CharOf(next_char) == int_to_char[next_char[1]]

InitGen ==
    /\ gpc = "loop"
    /\ context_length \in 1..MaxCL
    /\ new_chars \in 0..MaxNew
    /\ \E B \in BatchSizes : \E T0 \in 1..MaxT0 :
           start \in [1..B -> [1..T0 -> 0..(VocabSize - 1)]]
    /\ context = start
    /\ i = 0
    /\ res = <<>>
    /\ drawn = <<>>
    /\ passed = <<>>
    /\ result = <<>>
    /\ mpc = "idle" /\ cfg = GenModel(context_length) /\ ctx = <<>>
    /\ x = Failed("none") /\ blk = 0
    /\ apc = "idle" /\ raw = <<>> /\ mask = <<>> /\ weights = <<>>
    /\ dpc = "idle" /\ text = <<>> /\ data = <<>> /\ item = <<>>

\* one iteration of "for i in range(new_chars)"
GenStep ==
    /\ gpc = "loop"
    /\ i < new_chars
    /\ \E window \in {Truncate(context, context_length)} :
       \E prediction \in {GPTForward(cfg, window)} :
           /\ passed' = Append(passed, window)
           /\ IF IsErr(prediction)
              THEN /\ gpc' = "error"
                   /\ context' = window
                   /\ UNCHANGED <<i, res, drawn>>
              ELSE \E next_char \in Multinomial(LastTimeStep(prediction)) :
                   /\ drawn' = Append(drawn, next_char)
                   /\ context' = CatNext(window, next_char)
                   /\ IF Len(next_char) = 1
                      THEN /\ res' = Append(res, CharOf(next_char))
                           /\ i' = i + 1
                           /\ gpc' = gpc
                      ELSE \* .item() on a tensor of B > 1 elements raises
                           /\ gpc' = "error"
                           /\ UNCHANGED <<i, res>>
    /\ UNCHANGED <<start, new_chars, result, context_length, fvars, avars, dvars>>

\* return "".join(res)
GenReturn ==
    /\ gpc = "loop"
    /\ i = new_chars
    /\ gpc' = "done"
    /\ result' = res
    /\ UNCHANGED <<start, context, new_chars, i, res, drawn, passed,
                   context_length, fvars, avars, dvars>>

NextGen == GenStep \/ GenReturn
SpecGen == InitGen /\ [][NextGen]_vars
\* the loop is straight-line synchronous code: it keeps running
FairSpecGen == SpecGen /\ WF_vars(NextGen)

(***************************************************************************)
(* GPT: construction, then one call of forward.                            *)
(***************************************************************************)
\* the arguments of a constructor call that has not run yet
Args(vocab_size, c_length, model_dim, num_blocks, num_heads) ==
    [vocab_size |-> vocab_size, context_length |-> c_length,
     model_dim |-> model_dim, num_blocks |-> num_blocks, num_heads |-> num_heads]

InitFwd ==
    /\ mpc = "new"
    /\ \E c_length \in 1..MaxT, model_dim \in 1..MaxDim,
          num_blocks \in 0..MaxBlocks, num_heads \in 1..MaxHeads :
           cfg = Args(Cardinality(Tokens), c_length, model_dim, num_blocks, num_heads)
    /\ \E B \in BatchSizes : \E T \in 1..MaxT : ctx \in [1..B -> [1..T -> Tokens]]
    /\ x = Failed("none")
    /\ blk = 0
    /\ gpc = "idle" /\ start = <<>> /\ context = <<>> /\ context_length = 0
    /\ new_chars = 0 /\ i = 0 /\ res = <<>> /\ drawn = <<>> /\ passed = <<>>
    /\ result = <<>>
    /\ apc = "idle" /\ raw = <<>> /\ mask = <<>> /\ weights = <<>>
    /\ dpc = "idle" /\ text = <<>> /\ data = <<>> /\ item = <<>>

\* GPT.__init__: builds the embeddings, the blocks (each head with
\* head_size = model_dim // num_heads), the norm and the projection; no
\* statement of it checks its arguments or raises
Construct ==
    /\ mpc = "new"
    /\ cfg' = GPT(cfg.vocab_size, cfg.context_length, cfg.model_dim,
                  cfg.num_blocks, cfg.num_heads)
    /\ mpc' = "constructed"
    /\ UNCHANGED <<ctx, x, blk, gvars, avars, dvars, context_length>>

\* GPT.forward, through "embedded = token_embeddings + pos_embedding"
ForwardEmbed ==
    /\ mpc = "constructed"
    /\ \E embedded \in {GPTEmbed(cfg, ctx)} :
           /\ x' = embedded
           /\ mpc' = IF IsErr(embedded) THEN "error" ELSE "embedded"
    /\ UNCHANGED <<cfg, ctx, blk, gvars, avars, dvars, context_length>>

\* GPT.forward, the next TransformerBlock of self.transformer_blocks
ForwardBlock ==
    /\ mpc = "embedded"
    /\ blk < cfg.num_blocks
    /\ \E output \in {TransformerBlock(x, cfg.model_dim, cfg.num_heads)} :
           /\ x' = output
           /\ mpc' = IF IsErr(output) THEN "error" ELSE "embedded"
    /\ blk' = blk + 1
    /\ UNCHANGED <<cfg, ctx, gvars, avars, dvars, context_length>>

\* GPT.forward, "return self.vocab_projection(self.layer_norm_three(output))"
ForwardProject ==
    /\ mpc = "embedded"
    /\ blk = cfg.num_blocks
    /\ \E logits \in {GPTProject(cfg, x)} :
           /\ x' = logits
           /\ mpc' = IF IsErr(logits) THEN "error" ELSE "done"
    /\ UNCHANGED <<cfg, ctx, blk, gvars, avars, dvars, context_length>>

NextFwd == Construct \/ ForwardEmbed \/ ForwardBlock \/ ForwardProject
SpecFwd == InitFwd /\ [][NextFwd]_vars

(***************************************************************************)
(* SingleHeadAttention.forward: the attention weights of one batch row,    *)
(* from the scaled scores Q @ K^T / A ** 0.5 (any integers).               *)
(***************************************************************************)
\* exp of a score, to base 2 over the integers; exp(-inf) = 0
Exp(s) == IF IsNegInf(s) THEN 0 ELSE 2 ^ s[1]

\* nn.functional.softmax(row, dim=-1): weight k is num / den, where
\* den = 0 stands for the NaN row that an all -inf row produces
Softmax(row) ==
    LET e == [k \in 1..Len(row) |-> Exp(row[k])]
        total == SumSeq(e)
    IN  [k \in 1..Len(row) |-> [num |-> e[k], den |-> total]]

InitAttn ==
    /\ apc = "call"
    /\ \E T \in 1..MaxT : raw \in [1..T -> [1..T -> ScoreVals]]
    /\ mask = <<>>
    /\ weights = <<>>
    /\ gpc = "idle" /\ start = <<>> /\ context = <<>> /\ context_length = 0
    /\ new_chars = 0 /\ i = 0 /\ res = <<>> /\ drawn = <<>> /\ passed = <<>>
    /\ result = <<>>
    /\ mpc = "idle" /\ cfg = <<>> /\ ctx = <<>> /\ x = Failed("none") /\ blk = 0
    /\ dpc = "idle" /\ text = <<>> /\ data = <<>> /\ item = <<>>

\* "mask = torch.tril(torch.ones(T, T))" to "softmax(scores, dim=-1)"
AttnForward ==
    /\ apc = "call"
    /\ \E m \in {Tril(Len(raw))} :
       \E filled \in {MaskedFill([q \in 1..Len(raw) |-> [k \in 1..Len(raw) |->
                                      Finite(raw[q][k])]], m)} :
           /\ mask' = m
           /\ weights' = [q \in 1..Len(raw) |-> Softmax(filled[q])]
    /\ apc' = "done"
    /\ UNCHANGED <<raw, gvars, fvars, dvars, context_length>>

NextAttn == AttnForward
SpecAttn == InitAttn /\ [][NextAttn]_vars

(***************************************************************************)
(* TweetDataset                                                            *)
(***************************************************************************)
\* char_to_int = {char: idx for idx, char in int_to_char.items()}
char_to_int ==
    [c \in {int_to_char[n] : n \in DOMAIN int_to_char} |->
        CHOOSE n \in DOMAIN int_to_char : int_to_char[n] = c]

\* [char_to_int[char] for char in text if char in char_to_int]
RECURSIVE Encode(_)
Encode(t) ==
    IF Len(t) = 0 THEN <<>>
    ELSE IF t[1] \in DOMAIN char_to_int
         THEN <<char_to_int[t[1]]>> \o Encode(Tail(t))
         ELSE Encode(Tail(t))

\* an off-by-one __len__, len(self.data) - context_length + 1
DatasetLen_PlusOne(d, c_length) == Len(d) - c_length + 1

\* TweetDataset.__len__
DatasetLen(d, c_length) == Len(d) - c_length

\* TweetDataset.__getitem__(idx)
GetItem(d, idx, c_length) ==
    [idx |-> idx,
     x |-> Slice(d, idx, idx + c_length),
     y |-> Slice(d, idx + 1, idx + 1 + c_length)]

\* the characters a text is made of: the mapped ones and one that
\* int_to_char does not hold
TextChars == {int_to_char[n] : n \in DOMAIN int_to_char} \cup {"<"}

InitData ==
    /\ dpc = "text"
    /\ \E n \in 0..MaxText : text \in [1..n -> TextChars]
    /\ context_length \in 1..MaxCL
    /\ data = <<>>
    /\ item = <<>>
    /\ gpc = "idle" /\ start = <<>> /\ context = <<>>
    /\ new_chars = 0 /\ i = 0 /\ res = <<>> /\ drawn = <<>> /\ passed = <<>>
    /\ result = <<>>
    /\ mpc = "idle" /\ cfg = <<>> /\ ctx = <<>> /\ x = Failed("none") /\ blk = 0
    /\ apc = "idle" /\ raw = <<>> /\ mask = <<>> /\ weights = <<>>

\* TweetDataset.__init__(text)
DatasetInit ==
    /\ dpc = "text"
    /\ data' = Encode(text)
    /\ dpc' = "ready"
    /\ UNCHANGED <<text, item, gvars, fvars, avars, context_length>>

\* dataset[idx] for an idx in range(len(dataset)), as the DataLoader asks
DatasetGetItem ==
    /\ dpc = "ready"
    /\ \E idx \in 0..(DatasetLen(data, context_length) - 1) :
           item' = GetItem(data, idx, context_length)
    /\ UNCHANGED <<dpc, text, data, gvars, fvars, avars, context_length>>

NextData == DatasetInit \/ DatasetGetItem
SpecData == InitData /\ [][NextData]_vars


(***************************************************************************)
(* Properties of generate.                                                 *)
(***************************************************************************)
\* the indices drawn for batch row r, in sampling order
Samples(r) == [k \in 1..Len(drawn) |-> drawn[k][r]]
\* the start context of row r followed by every index drawn for it
History(r) == start[r] \o Samples(r)

\* C1: at every step of the loop the context handed to the model has
\* exactly min(L, C) tokens, L the length of the running context at the
\* start of the step and C = context_length, and they are the last
\* min(L, C) tokens of the running context, in order.
C1_SlidingWindow ==
    [][passed' # passed =>
        LET window == passed'[Len(passed')]
        IN  \A r \in 1..Len(context) :
              LET L == Len(context[r])
                  n == Min(L, context_length)
              IN  /\ Len(window[r]) = n
                  /\ \A k \in 1..n : window[r][k] = context[r][L - n + k]]_vars

\* C1 witness: two model invocations, the first on a start context longer
\* than context_length that was cut down to context_length tokens.
C1_Witness ==
    /\ Len(passed) >= 2
    /\ Len(start[1]) > context_length
    /\ Len(passed[1][1]) = context_length
    /\ Len(passed[2][1]) = context_length

\* C3: each sampled index is appended to the untruncated running context:
\* after k steps from a start context of length T0 the running context has
\* length T0 + k and is the start context followed by the k sampled
\* indices in sampling order, also when T0 + k > context_length.
C3_UntruncatedContext ==
    gpc \in {"loop", "done"} =>
        \A r \in 1..Len(start) :
            /\ Len(context[r]) = Len(start[r]) + i
            /\ context[r] = History(r)

\* what holds of a call with batch size 1 at every moment, and when it
\* has returned
C4_Safe ==
    Len(start) = 1 =>
        /\ gpc # "error"
        /\ Len(passed) = i /\ Len(drawn) = i /\ i <= new_chars
        /\ (gpc = "done" =>
              /\ Len(passed) = new_chars
              /\ Len(drawn) = new_chars
              /\ Len(result) = new_chars
              /\ \A k \in 1..new_chars :
                    /\ drawn[k][1] \in 0..(VocabSize - 1)
                    /\ result[k] = int_to_char[drawn[k][1]])
C4_Called == Len(start) = 1
C4_Returned == gpc = "done"

\* C4: with batch size 1, generate terminates for every new_chars = n >= 0
\* after exactly n model invocations and n draws and returns n characters,
\* the k-th being int_to_char of the k-th sampled index, every sampled
\* index in [0, vocab_size); for n = 0 the model is never invoked.
C4_Terminates == []C4_Safe /\ (C4_Called ~> C4_Returned)

\* C4 witness: a finished call with batch size 1 that returned new_chars
\* >= 2 characters, not all the same.
C4_Witness ==
    /\ gpc = "done"
    /\ Len(start) = 1
    /\ new_chars >= 2
    /\ Len(result) = new_chars
    /\ result[1] # result[2]

\* C8 as stated: for every batch size B >= 1 generate draws one index per
\* batch row at every step and ends having produced new_chars indices for
\* each batch row.
C8_PerRowGeneration ==
    /\ gpc # "error"
    /\ \A k \in 1..Len(drawn) : Len(drawn[k]) = Len(start)
    /\ (gpc = "done" => \A r \in 1..Len(start) : Len(Samples(r)) = new_chars)

(***************************************************************************)
(* Properties of GPT.forward.                                              *)
(***************************************************************************)
\* rows a and b of the forward argument agree on positions 0..p-1
AgreeUpTo(a, b, p) == \A q \in 1..p : ctx[a][q] = ctx[b][q]
\* tensor t is computed from the same inputs in rows a and b at 0..p-1
SameUpTo(t, a, b, p) == \A q \in 1..p : t.val[a][q] = t.val[b][q]

\* C2: causality. Two contexts of the same length T <= context_length
\* (the rows of one batch) that agree on positions 0..i give the same
\* embedded tensor, the same output of every attention head and of every
\* block, and the same logits at positions 0..i, whatever the tokens at
\* positions j > i are.
C2_Causal ==
    (mpc \in {"embedded", "done"} /\ ~IsErr(x)) =>
        \A a \in 1..Len(ctx), b \in 1..Len(ctx) : \A p \in 1..Len(ctx[1]) :
            AgreeUpTo(a, b, p) =>
                /\ SameUpTo(x, a, b, p)
                /\ (mpc = "embedded" /\ blk < cfg.num_blocks) =>
                      LET head == SingleHeadAttention(LayerNorm(x, cfg.model_dim),
                                                      cfg.model_dim, cfg.head_size)
                      IN  ~IsErr(head) => SameUpTo(head, a, b, p)

\* C2 witness: logits were returned by a model with a block for two
\* contexts of three tokens that agree on the first two and differ on the
\* last.
C2_Witness ==
    /\ mpc = "done"
    /\ cfg.num_blocks >= 1
    /\ Len(ctx) = 2
    /\ Len(ctx[1]) = 3
    /\ AgreeUpTo(1, 2, 2)
    /\ ctx[1][3] # ctx[2][3]
    /\ x.val[1][3] # x.val[2][3]

\* the configuration and the input meet the preconditions of C5
ValidCall ==
    /\ cfg.model_dim % cfg.num_heads = 0
    /\ Len(ctx[1]) >= 1
    /\ Len(ctx[1]) <= cfg.context_length

\* C5: shapes. With model_dim % num_heads = 0 and an input (B, T),
\* 1 <= T <= context_length, the forward pass raises nothing, the heads'
\* outputs have width model_dim / num_heads and concatenate to width
\* model_dim, every TransformerBlock returns (B, T, model_dim) as it
\* received, and GPT.forward returns logits (B, T, vocab_size).
C5_Shapes ==
    (mpc \in {"constructed", "embedded", "done", "error"} /\ ValidCall) =>
        LET B == Len(ctx)
            T == Len(ctx[1])
        IN  /\ mpc # "error"
            /\ mpc = "embedded" => x.shape = <<B, T, cfg.model_dim>>
            /\ (mpc = "embedded" /\ blk < cfg.num_blocks) =>
                  LET heads == [h \in 1..cfg.num_heads |->
                                   SingleHeadAttention(LayerNorm(x, cfg.model_dim),
                                                       cfg.model_dim, cfg.head_size)]
                  IN  /\ \A h \in 1..cfg.num_heads :
                            heads[h].shape =
                                <<B, T, cfg.model_dim \div cfg.num_heads>>
                      /\ Cat(heads).shape = <<B, T, cfg.model_dim>>
                      /\ TransformerBlock(x, cfg.model_dim, cfg.num_heads).shape
                             = x.shape
            /\ mpc = "done" => x.shape = <<B, T, cfg.vocab_size>>

\* C5 witness: logits returned by a model with a block of two heads on a
\* batch of two rows of three tokens.
C5_Witness ==
    /\ mpc = "done"
    /\ ValidCall
    /\ cfg.num_blocks >= 1
    /\ cfg.num_heads = 2
    /\ cfg.model_dim = 2
    /\ x.shape = <<2, 3, cfg.vocab_size>>

\* C6: a forward call on a context with T > context_length ends in an
\* error and returns no logits: it never runs on a context cut or padded
\* to context_length.
C6_TooLongRejected ==
    (mpc \in {"constructed", "embedded", "done", "error"}
        /\ Len(ctx[1]) > cfg.context_length) =>
            /\ mpc \in {"constructed", "error"}
            /\ mpc = "error" => IsErr(x)

\* C6 witness: a forward call on a context longer than context_length has
\* raised the IndexError of the position lookup.
C6_Witness ==
    /\ mpc = "error"
    /\ Len(ctx[1]) > cfg.context_length
    /\ x.err = "IndexError"

\* C7 as stated: with model_dim not divisible by num_heads the constructor
\* raises, so no such model is ever constructed (nor, later, run).
C7_RejectedAtConstruction ==
    (mpc # "idle" /\ cfg.model_dim % cfg.num_heads # 0) => mpc = "new"

(***************************************************************************)
(* Properties of the attention weights.                                    *)
(***************************************************************************)
\* C10: for a call with sequence length T the mask is T x T, and for every
\* query row q the unmasked key positions are exactly 0..q: the row is not
\* all -inf (its softmax is defined), every position after q has weight
\* exactly 0, and the weights over 0..q sum to 1.
C10_MaskedSoftmax ==
    apc = "done" =>
        LET T == Len(raw)
        IN  /\ Len(mask) = T
            /\ Len(weights) = T
            /\ \A q \in 1..T :
                 /\ Len(mask[q]) = T
                 /\ {k \in 1..T : mask[q][k] # 0} = 1..q
                 /\ \A k \in 1..T :
                      /\ weights[q][k].den > 0
                      /\ k > q => weights[q][k].num = 0
                 /\ SumSeq([k \in 1..q |-> weights[q][k].num]) = weights[q][1].den

\* C10 witness: the weights of a call with T = 3 whose last row has
\* unequal weights.
C10_Witness ==
    /\ apc = "done"
    /\ Len(raw) = 3
    /\ weights[3][1].num # weights[3][2].num
    /\ weights[1][2].num = 0

(***************************************************************************)
(* Properties of TweetDataset.                                             *)
(***************************************************************************)
\* C9: with n indices in the dataset and C = context_length, __len__ is
\* n - C, and for every idx in [0, n - C) the pair (x, y) has x and y of
\* length exactly C, y[k] = x[k+1] for 0 <= k < C-1 and y[C-1] =
\* data[idx + C]; no item reads past the end of the data.
C9_TrainingPairs ==
    dpc = "ready" =>
        LET n == Len(data)
            C == context_length
        IN  /\ DatasetLen(data, C) = n - C
            /\ item # <<>> =>
                 /\ item.idx \in 0..(n - C - 1)
                 /\ item.idx + C <= n - 1
                 /\ Len(item.x) = C
                 /\ Len(item.y) = C
                 /\ \A k \in 1..(C - 1) : item.y[k] = item.x[k + 1]
                 /\ item.y[C] = data[item.idx + C + 1]
                 /\ \A k \in 1..C : item.x[k] = data[item.idx + k]

\* C9 witness: the last item (idx = n - C - 1 >= 1) of a dataset built
\* from a text that held an unmapped character, with context_length 2.
C9_Witness ==
    /\ dpc = "ready"
    /\ item # <<>>
    /\ context_length = 2
    /\ Len(data) < Len(text)
    /\ item.idx >= 1
    /\ item.idx = Len(data) - context_length - 1
    /\ item.x[1] # item.y[2]

====
